---- MODULE Spec2Model ----
(***************************************************************************)
(* Model of goccmack/godsp:                                                *)
(*   - the persistent-homology peak detector (GetPeaks, GetIndices, Max,   *)
(*     MinMaxPersistence), swept one loop iteration per step;              *)
(*   - the sectioned Daubechies-4 lifting transform (Daubechies4,          *)
(*     getTransformSections, GetCoefficients, GetDownSampledCoefficients). *)
(* Go slices are 0-based; they are kept as TLA+ sequences and read with    *)
(* At(x, i) == x[i + 1] so that every index below is the source's index.   *)
(***************************************************************************)
EXTENDS Integers, Sequences, FiniteSets, TLC

VARIABLES
    pc,         \* position of the modelled call sequence
    seq,        \* GetPeaks: the input sequence (Peaks.seq)
    peaks,      \* GetPeaks: the peak list (Peaks.peaks)
    idxtopeak,  \* GetPeaks: maps indices to peaks
    indices,    \* GetPeaks: sequence indices sorted by value, descending
    k,          \* GetPeaks: position of the sweep loop in indices
    frac,       \* fracOfMaxPersistence of the last query, as frac / FracDen
    idxs,       \* result of the last GetIndices (also the local of Max)
    biggest,    \* result of the last Max
    s,          \* Daubechies4: the caller's input slice
    level,      \* Transform.level
    st,         \* Transform.st
    sections,   \* Transform.sections
    got,        \* which Transform getters have been called
    cfs,        \* result of GetCoefficients
    dscfs,      \* result of GetDownSampledCoefficients
    decomp,     \* result of GetDecomposition
    N,          \* getTransformSections: the length argument
    vec,        \* FindMax, FindMaxI: the vector x
    maxValue,   \* FindMax, FindMaxI: the value returned
    maxIndex    \* FindMax, FindMaxI: the index returned

vars == <<pc, seq, peaks, idxtopeak, indices, k, frac, idxs, biggest,
          s, level, st, sections, got, cfs, dscfs, decomp, N,
          vec, maxValue, maxIndex>>

peakVars == <<seq, peaks, idxtopeak, indices, k, frac, idxs, biggest>>
dwtVars == <<s, level, st, sections, got, cfs, dscfs, decomp, N>>
vecVars == <<vec, maxValue, maxIndex>>

----------------------------------------------------------------------------
(* Bounds of the model *)

MaxLen == 5
MaxVal == 2
FracDen == 2
MaxUnits == 12
MaxLevel == 2
MaxSlope == 2
MaxN == 3100
MaxSecLevel == 4
MaxWin == 6

----------------------------------------------------------------------------
(* Helpers for 0-based slices *)

At(x, i) == x[i + 1]

Put(x, i, v) == [x EXCEPT ![i + 1] = v]

\* Range returns an integer range 0:1:n-1
Range(n) == [i \in 1..n |-> i - 1]

----------------------------------------------------------------------------
(* float64 values the peak detector computes with: a finite number (the    *)
(* sequence holds small integers), +Inf, -Inf or NaN.                      *)

Fin(v) == [kind |-> "fin", v |-> v]
PosInf == [kind |-> "+inf", v |-> 0]
NegInf == [kind |-> "-inf", v |-> 0]

\* x > y on float64
FGt(x, y) ==
    CASE x.kind = "nan" \/ y.kind = "nan" -> FALSE
      [] x.kind = "+inf" -> y.kind # "+inf"
      [] x.kind = "-inf" -> FALSE
      [] OTHER -> \/ y.kind = "-inf"
                  \/ (y.kind = "fin" /\ x.v > y.v)

\* x < y on float64
FLt(x, y) == FGt(y, x)

\* prs / maxPersistence >= f / FracDen on float64, where prs is a finite
\* number >= 0 or +Inf and maxPersistence is a finite number >= 0 or -Inf.
\* +Inf / -Inf and 0 / 0 are NaN, and NaN >= x is false; x / 0 is +Inf for
\* x > 0; a finite x over -Inf is -0.
RatioGE(prs, max, f) ==
    CASE prs.kind = "+inf" /\ max.kind = "-inf" -> FALSE
      [] prs.kind = "+inf" -> TRUE
      [] max.kind = "-inf" -> f <= 0
      [] max.v = 0 -> prs.v > 0
      [] OTHER -> prs.v * FracDen >= f * max.v

----------------------------------------------------------------------------
(* The peak detector *)

none == -1

newPeak(startIdx) ==
    [born |-> startIdx, left |-> startIdx, right |-> startIdx, died |-> none]

\* Faulty variant: the difference taken the other way round
getPersistence_Swapped(p, sq) ==
    IF p.died = none THEN PosInf
    ELSE Fin(At(sq, p.died) - At(sq, p.born))

getPersistence(p, sq) ==
    IF p.died = none THEN PosInf
    ELSE Fin(At(sq, p.born) - At(sq, p.died))

\* The order of the sweep: func(i, j int) bool { return seq[indices[i]] > seq[indices[j]] }
ValueLess(sq, i, j) == At(sq, i) > At(sq, j)

\* Sequence indices sorted by values: sort.SliceStable of Range(len(seq)), which
\* puts the element at position a behind the elements less than it and behind
\* the elements before it that it is not less than
SortedIndices(sq) ==
    LET x == Range(Len(sq))
        rank(a) == Cardinality({b \in 1..Len(x) :
                        \/ ValueLess(sq, x[b], x[a])
                        \/ (~ValueLess(sq, x[a], x[b]) /\ b < a)})
    IN [r \in 1..Len(x) |-> x[CHOOSE a \in 1..Len(x) : rank(a) = r - 1]]

Seqs == UNION {[1..n -> 0..MaxVal] : n \in 0..MaxLen}

Scenario == <<1, 3, 2, 5, 2, 4, 1>>

Fracs == -1..(FracDen + 1)

lftdone(idx) == idx > 0 /\ At(idxtopeak, idx - 1) # none
rgtdone(idx) == idx < Len(seq) - 1 /\ At(idxtopeak, idx + 1) # none

\* New peak born
Born ==
    /\ pc = "sweep" /\ k < Len(indices)
    /\ LET idx == At(indices, k) IN
        /\ ~lftdone(idx) /\ ~rgtdone(idx)
        /\ peaks' = Append(peaks, newPeak(idx))
        /\ idxtopeak' = Put(idxtopeak, idx, Len(peaks))
    /\ k' = k + 1
    /\ UNCHANGED <<pc, seq, indices, frac, idxs, biggest>>
    /\ UNCHANGED dwtVars
    /\ UNCHANGED vecVars

\* Directly merge to next peak left
ExtendLeft ==
    /\ pc = "sweep" /\ k < Len(indices)
    /\ LET idx == At(indices, k)
           il == At(idxtopeak, idx - 1)
       IN
        /\ lftdone(idx) /\ ~rgtdone(idx)
        /\ peaks' = Put(peaks, il, [At(peaks, il) EXCEPT !.right = @ + 1])
        /\ idxtopeak' = Put(idxtopeak, idx, il)
    /\ k' = k + 1
    /\ UNCHANGED <<pc, seq, indices, frac, idxs, biggest>>
    /\ UNCHANGED dwtVars
    /\ UNCHANGED vecVars

\* Directly merge to next peak right
ExtendRight ==
    /\ pc = "sweep" /\ k < Len(indices)
    /\ LET idx == At(indices, k)
           ir == At(idxtopeak, idx + 1)
       IN
        /\ ~lftdone(idx) /\ rgtdone(idx)
        /\ peaks' = Put(peaks, ir, [At(peaks, ir) EXCEPT !.left = @ - 1])
        /\ idxtopeak' = Put(idxtopeak, idx, ir)
    /\ k' = k + 1
    /\ UNCHANGED <<pc, seq, indices, frac, idxs, biggest>>
    /\ UNCHANGED dwtVars
    /\ UNCHANGED vecVars

\* Faulty variant: the peak born lower survives
LeftSurvives_Lower(il, ir) == At(seq, At(peaks, il).born) < At(seq, At(peaks, ir).born)

\* Faulty variant: on equal birth values the left peak survives
LeftSurvives_OnTie(il, ir) == At(seq, At(peaks, il).born) >= At(seq, At(peaks, ir).born)

\* Left was born earlier: merge right to left
LeftSurvives(il, ir) == At(seq, At(peaks, il).born) > At(seq, At(peaks, ir).born)

\* Faulty variant: the survivor's far boundary keeps naming the dead peak
Merge_StaleBoundary ==
    /\ pc = "sweep" /\ k < Len(indices)
    /\ LET idx == At(indices, k)
           il == At(idxtopeak, idx - 1)
           ir == At(idxtopeak, idx + 1)
       IN
        /\ lftdone(idx) /\ rgtdone(idx)
        /\ IF LeftSurvives(il, ir)
           THEN LET p1 == Put(peaks, ir, [At(peaks, ir) EXCEPT !.died = idx])
                IN /\ peaks' = Put(p1, il, [At(p1, il) EXCEPT !.right = At(p1, ir).right])
                   /\ idxtopeak' = Put(idxtopeak, idx, il)
           ELSE LET p1 == Put(peaks, il, [At(peaks, il) EXCEPT !.died = idx])
                IN /\ peaks' = Put(p1, ir, [At(p1, ir) EXCEPT !.left = At(p1, il).left])
                   /\ idxtopeak' = Put(idxtopeak, idx, ir)
    /\ k' = k + 1
    /\ UNCHANGED <<pc, seq, indices, frac, idxs, biggest>>
    /\ UNCHANGED dwtVars
    /\ UNCHANGED vecVars

\* Merge left and right peaks
Merge ==
    /\ pc = "sweep" /\ k < Len(indices)
    /\ LET idx == At(indices, k)
           il == At(idxtopeak, idx - 1)
           ir == At(idxtopeak, idx + 1)
       IN
        /\ lftdone(idx) /\ rgtdone(idx)
        /\ IF LeftSurvives(il, ir)
           THEN LET p1 == Put(peaks, ir, [At(peaks, ir) EXCEPT !.died = idx])
                    p2 == Put(p1, il, [At(p1, il) EXCEPT !.right = At(p1, ir).right])
                IN /\ peaks' = p2
                   /\ idxtopeak' = Put(Put(idxtopeak, At(p2, il).right, il), idx, il)
           ELSE LET p1 == Put(peaks, il, [At(peaks, il) EXCEPT !.died = idx])
                    p2 == Put(p1, ir, [At(p1, ir) EXCEPT !.left = At(p1, il).left])
                IN /\ peaks' = p2
                   /\ idxtopeak' = Put(Put(idxtopeak, At(p2, ir).left, ir), idx, ir)
    /\ k' = k + 1
    /\ UNCHANGED <<pc, seq, indices, frac, idxs, biggest>>
    /\ UNCHANGED dwtVars
    /\ UNCHANGED vecVars

\* Faulty variant: sorted by born, descending
BornLess_Descending(p, q) == p.born > q.born

\* The order the peaks are returned in: by born, ascending
BornLess(p, q) == p.born < q.born

\* sort.SliceStable of the peaks under BornLess
SortedByBorn(x) ==
    LET rank(a) == Cardinality({b \in 1..Len(x) :
                        \/ BornLess(x[b], x[a])
                        \/ (~BornLess(x[a], x[b]) /\ b < a)})
    IN [r \in 1..Len(x) |-> x[CHOOSE a \in 1..Len(x) : rank(a) = r - 1]]

\* End of the sweep: sort the peaks and return
SortPeaks ==
    /\ pc = "sweep" /\ k = Len(indices)
    /\ peaks' = SortedByBorn(peaks)
    /\ pc' = "done"
    /\ UNCHANGED <<seq, idxtopeak, indices, k, frac, idxs, biggest>>
    /\ UNCHANGED dwtVars
    /\ UNCHANGED vecVars

\* MinMaxPersistence, as <<min, max>>
RECURSIVE MinMaxLoop(_, _, _, _, _)
MinMaxLoop(pks, sq, i, min, max) ==
    IF i > Len(pks) THEN <<min, max>>
    ELSE LET prs == getPersistence(pks[i], sq)
             max1 == IF FGt(prs, max) /\ FLt(prs, PosInf) THEN prs ELSE max
             min1 == IF FLt(prs, min) THEN prs ELSE min
         IN MinMaxLoop(pks, sq, i + 1, min1, max1)

MinMaxPersistence(pks, sq) == MinMaxLoop(pks, sq, 1, PosInf, NegInf)

\* Whether GetIndices keeps peak pk
Qualifies(pk, sq, maxPersistence, f) ==
    RatioGE(getPersistence(pk, sq), maxPersistence, f)

RECURSIVE GetIndicesLoop(_, _, _, _, _)
GetIndicesLoop(pks, sq, maxPersistence, f, i) ==
    IF i > Len(pks) THEN <<>>
    ELSE (IF Qualifies(pks[i], sq, maxPersistence, f)
          THEN <<pks[i].born>> ELSE <<>>)
         \o GetIndicesLoop(pks, sq, maxPersistence, f, i + 1)

GetIndices(pks, sq, f) ==
    GetIndicesLoop(pks, sq, MinMaxPersistence(pks, sq)[2], f, 1)

RECURSIVE MaxLoop(_, _, _, _, _)

\* Faulty variant: the running value val is not updated with biggest
MaxLoop_StaleVal(ix, sq, i, big, val) ==
    IF i > Len(ix) THEN big
    ELSE IF FGt(Fin(At(sq, ix[i])), val)
         THEN MaxLoop(ix, sq, i + 1, ix[i], val)
         ELSE MaxLoop(ix, sq, i + 1, big, val)

\* The loop of Max over idxs, from position i with the running biggest, val
MaxLoop(ix, sq, i, big, val) ==
    IF i > Len(ix) THEN big
    ELSE IF FGt(Fin(At(sq, ix[i])), val)
         THEN MaxLoop(ix, sq, i + 1, ix[i], Fin(At(sq, ix[i])))
         ELSE MaxLoop(ix, sq, i + 1, big, val)

Max(pks, sq, f) == MaxLoop(GetIndices(pks, sq, f), sq, 1, -1, NegInf)

CallGetIndices ==
    /\ pc \in {"done", "indices", "max"}
    /\ \E f \in Fracs :
        /\ frac' = f
        /\ idxs' = GetIndices(peaks, seq, f)
    /\ pc' = "indices"
    /\ UNCHANGED <<seq, peaks, idxtopeak, indices, k, biggest>>
    /\ UNCHANGED dwtVars
    /\ UNCHANGED vecVars

CallMax ==
    /\ pc \in {"done", "indices", "max"}
    /\ \E f \in Fracs :
        /\ frac' = f
        /\ idxs' = GetIndices(peaks, seq, f)
        /\ biggest' = Max(peaks, seq, f)
    /\ pc' = "max"
    /\ UNCHANGED <<seq, peaks, idxtopeak, indices, k>>
    /\ UNCHANGED dwtVars
    /\ UNCHANGED vecVars

VecIdle == vec = <<>> /\ maxValue = 0 /\ maxIndex = 0

DwtIdle ==
    /\ s = <<>> /\ level = 0 /\ st = <<>> /\ sections = <<>>
    /\ got = {} /\ cfs = <<>> /\ dscfs = <<>> /\ decomp = <<>> /\ N = 0

\* GetPeaks, on entry to the sweep loop
Init ==
    /\ pc = "sweep"
    /\ seq \in Seqs \cup {Scenario}
    /\ peaks = <<>>
    /\ idxtopeak = [i \in 1..Len(seq) |-> none]
    /\ indices = SortedIndices(seq)
    /\ k = 0
    /\ frac = 0 /\ idxs = <<>> /\ biggest = none
    /\ DwtIdle
    /\ VecIdle

Next ==
    \/ Born
    \/ ExtendLeft
    \/ ExtendRight
    \/ Merge
    \/ SortPeaks
    \/ CallGetIndices
    \/ CallMax

Spec == Init /\ [][Next]_vars

----------------------------------------------------------------------------
(* float64 values of the transform, kept exact: the number                 *)
(* (a + b*sqrt(2) + c*sqrt(3) + d*sqrt(6)) / 2^e, in lowest terms.  The    *)
(* rounding of float64 arithmetic is left out.                             *)

RECURSIVE Norm(_)
Norm(x) ==
    IF x.e > 0 /\ x.a % 2 = 0 /\ x.b % 2 = 0 /\ x.c % 2 = 0 /\ x.d % 2 = 0
    THEN Norm([a |-> x.a \div 2, b |-> x.b \div 2, c |-> x.c \div 2,
               d |-> x.d \div 2, e |-> x.e - 1])
    ELSE x

RECURSIVE TwoTo(_)
TwoTo(n) == IF n <= 0 THEN 1 ELSE 2 * TwoTo(n - 1)

Num(n) == [a |-> n, b |-> 0, c |-> 0, d |-> 0, e |-> 0]

FAdd(x, y) ==
    LET e == IF x.e > y.e THEN x.e ELSE y.e
        fx == TwoTo(e - x.e)
        fy == TwoTo(e - y.e)
    IN Norm([a |-> fx * x.a + fy * y.a, b |-> fx * x.b + fy * y.b,
             c |-> fx * x.c + fy * y.c, d |-> fx * x.d + fy * y.d, e |-> e])

FNeg(x) == [a |-> -x.a, b |-> -x.b, c |-> -x.c, d |-> -x.d, e |-> x.e]

FSub(x, y) == FAdd(x, FNeg(y))

FMul(x, y) ==
    Norm([a |-> x.a * y.a + 2 * x.b * y.b + 3 * x.c * y.c + 6 * x.d * y.d,
          b |-> x.a * y.b + x.b * y.a + 3 * x.c * y.d + 3 * x.d * y.c,
          c |-> x.a * y.c + x.c * y.a + 2 * x.b * y.d + 2 * x.d * y.b,
          d |-> x.a * y.d + x.d * y.a + x.b * y.c + x.c * y.b,
          e |-> x.e + y.e])

\* math.Sqrt(3)
Sqrt3 == [a |-> 0, b |-> 0, c |-> 1, d |-> 0, e |-> 0]
\* math.Sqrt(3)/4
Sqrt3Over4 == [a |-> 0, b |-> 0, c |-> 1, d |-> 0, e |-> 2]
\* (math.Sqrt(3)-2)/4
Sqrt3Minus2Over4 == [a |-> -2, b |-> 0, c |-> 1, d |-> 0, e |-> 2]
\* (math.Sqrt(3) - 1) / math.Sqrt(2) = (sqrt(6) - sqrt(2)) / 2
NormFront == [a |-> 0, b |-> -1, c |-> 0, d |-> 1, e |-> 1]
\* (math.Sqrt(3) + 1) / math.Sqrt(2) = (sqrt(6) + sqrt(2)) / 2
NormBack == [a |-> 0, b |-> 1, c |-> 0, d |-> 1, e |-> 1]

----------------------------------------------------------------------------
(* Vector utilities the transform uses *)

\* Pow2 returns 2^x; it panics if x < 0 (the callers below guard that case)
RECURSIVE Pow2Loop(_, _, _)
Pow2Loop(x, i, pw) == IF i <= x THEN Pow2Loop(x, i + 1, pw * 2) ELSE pw

Pow2(x) == Pow2Loop(x, 1, 1)

Pow2Panics(x) == x < 0

\* Log2 returns the integer log base 2 of n: int(math.Log2(float64(n))), which
\* is the exact floor for every n >= 1 a slice length can take
RECURSIVE Log2(_)
Log2(n) == IF n < 2 THEN 0 ELSE 1 + Log2(n \div 2)

DownSamplePanics(x, n) == Len(x) % n # 0

\* DownSample returns x downsampled by n
DownSample(x, n) == [j \in 1..(Len(x) \div n) |-> At(x, (j - 1) * n)]

----------------------------------------------------------------------------
(* The sectioned Daubechies-4 transform *)

MinSection == 64

\* Faulty variant: a section just under the next power of two is rounded up
SectionSize_RoundedUp(remaining) ==
    IF remaining = Pow2(Log2(remaining)) THEN remaining
    ELSE Pow2(Log2(remaining) + 1)

\* The size of the section cut from the remaining N - start samples
SectionSize(remaining) == Pow2(Log2(remaining))

\* Faulty variant: the margin of 64 samples per level is dropped
MoreSections_NoMargin(n, lvl, start) == n - start >= Pow2(lvl)

\* Faulty variant: a remainder of exactly the minimum is not transformed
MoreSections_Strict(n, lvl, start) == n - start > MinSection * Pow2(lvl)

\* The width of Go's int on the 64-bit builds
IntBits == 64

\* The loop condition of getTransformSections,
\* N-start >= 64*godsp.Pow2(level), in int arithmetic: 64 * Pow2(lvl) is
\* 2^e with e = 6 + lvl while e < IntBits - 1; it wraps to the least int for
\* e = IntBits - 1 and to 0 for e >= IntBits.  Below that, 2^lvl > n + 1 makes
\* the product greater than n - start without computing it.
MoreSections(n, lvl, start) ==
    LET e == Log2(MinSection) + lvl
    IN IF e >= IntBits THEN n - start >= 0
       ELSE IF e = IntBits - 1 THEN TRUE
       ELSE IF lvl > Log2(n + 1) THEN FALSE
       ELSE n - start >= MinSection * Pow2(lvl)

\* Whether the loop of getTransformSections comes to call Log2(0), with no
\* sample left and the loop condition still true
RECURSIVE CallsLog2OfZero(_, _, _)
CallsLog2OfZero(n, lvl, start) ==
    /\ MoreSections(n, lvl, start)
    /\ \/ n - start = 0
       \/ CallsLog2OfZero(n, lvl, start + Pow2(Log2(n - start)))

\* int(math.Log2(0)) = int(-Inf): the conversion of a float64 out of the range
\* of int is implementation-dependent.  The builds give the least int (Pow2
\* panics on it) or the greatest int (the loop of Pow2 then runs 2^63 times).
Log2OfZero == {"least", "greatest"}

SectionsOutcome(r) == IF r = "least" THEN "panic" ELSE "stuck"

RECURSIVE SectionsLoop(_, _, _)
SectionsLoop(n, lvl, start) ==
    IF MoreSections(n, lvl, start)
    THEN LET size == SectionSize(n - start)
         IN <<[start |-> start, size |-> size]>> \o SectionsLoop(n, lvl, start + size)
    ELSE <<>>

\* Return the series of length 2^k stages of the DWT (lvl >= 0)
getTransformSections(n, lvl) == SectionsLoop(n, lvl, 0)

\* The iterations i = 2*lo, 2*lo + 2, ..., 2*hi of the second loop of split,
\* s[i/2] = s[i], run in this order on w (the first half of the iterations,
\* then the second half on its result)
RECURSIVE SplitEvensRange(_, _, _)
SplitEvensRange(w, lo, hi) ==
    IF lo > hi \/ 2 * lo >= Len(w) THEN w
    ELSE IF lo = hi THEN Put(w, (2 * lo) \div 2, At(w, 2 * lo))
    ELSE LET mid == (lo + hi) \div 2
         IN SplitEvensRange(SplitEvensRange(w, lo, mid), mid + 1, hi)

\* The second loop of split: s[i/2] = s[i] for i = 2, 4, ... < len(s), in place
SplitEvens(w, i) == SplitEvensRange(w, i \div 2, (Len(w) - 1) \div 2)

\* Faulty variant: the odd elements in the first half
split_OddsFirst(w) ==
    LET half == Len(w) \div 2
    IN [i \in 1..Len(w) |->
            IF i <= half THEN At(w, 2 * (i - 1) + 1)
            ELSE IF i <= 2 * half THEN At(w, 2 * (i - half - 1))
            ELSE w[i]]

\* Split w into even and odd elements
split(w) ==
    LET half == Len(w) \div 2
        odd == [j \in 1..half |-> At(w, 2 * (j - 1) + 1)]
        ev == SplitEvens(w, 2)
    IN [i \in 1..Len(w) |->
            IF i - 1 >= half /\ i - 1 < 2 * half THEN odd[i - half] ELSE ev[i]]

\* One lifting step on a window w of at least 2 samples (Ripples section 3.4)
daubechies4(w) ==
    LET half == Len(w) \div 2
        \* Update 1
        u1 == [i \in 1..Len(w) |->
                IF i - 1 < half
                THEN FAdd(w[i], FMul(Sqrt3, w[i + half]))
                ELSE w[i]]
        \* Predict
        pr == [i \in 1..Len(w) |->
                IF i - 1 >= half /\ i - 1 < 2 * half
                THEN LET n == i - 1 - half
                         prev == IF n = 0 THEN half - 1 ELSE n - 1
                     IN FSub(FSub(u1[i], FMul(Sqrt3Over4, At(u1, n))),
                             FMul(Sqrt3Minus2Over4, At(u1, prev)))
                ELSE u1[i]]
        \* Update 2
        u2 == [i \in 1..Len(w) |->
                IF i - 1 < half - 1 THEN FSub(pr[i], At(pr, half + i))
                ELSE IF i - 1 = half - 1 THEN FSub(pr[i], At(pr, half))
                ELSE pr[i]]
    IN  \* Normalise
        [i \in 1..Len(w) |->
            IF i - 1 < half THEN FMul(NormFront, u2[i])
            ELSE IF i - 1 < 2 * half THEN FMul(NormBack, u2[i])
            ELSE u2[i]]

\* Faulty variant: the window reaches one sample past max
WriteWindow_PastMax(buf, start, max, w) ==
    [i \in 1..Len(buf) |->
        IF i - 1 >= start /\ i - 1 < max THEN w[i - start]
        ELSE IF i - 1 = max THEN w[Len(w)]
        ELSE buf[i]]

\* buf with buf[start:max] replaced by w
WriteWindow(buf, start, max, w) ==
    [i \in 1..Len(buf) |-> IF i - 1 >= start /\ i - 1 < max THEN w[i - start] ELSE buf[i]]

\* The levels of one section: for l := level; l > 0; l--
RECURSIVE LevelLoop(_, _, _, _)
LevelLoop(buf, start, scaleSize, l) ==
    IF l > 0
    THEN LET max == start + scaleSize
             w == daubechies4(split(SubSeq(buf, start + 1, max)))
         IN LevelLoop(WriteWindow(buf, start, max, w), start, scaleSize \div 2, l - 1)
    ELSE buf

RECURSIVE SectionLoop(_, _, _, _)
SectionLoop(buf, secs, lvl, i) ==
    IF i > Len(secs) THEN buf
    ELSE SectionLoop(LevelLoop(buf, secs[i].start, secs[i].size, lvl), secs, lvl, i + 1)

\* The coefficients of one section: band l is st[start+half : start+2*half]
RECURSIVE SectionCoefLoop(_, _, _, _, _)
SectionCoefLoop(buf, sec, lvl, l, half) ==
    IF l <= lvl
    THEN <<SubSeq(buf, sec.start + half + 1, sec.start + 2 * half)>>
         \o SectionCoefLoop(buf, sec, lvl, l + 1, half \div 2)
    ELSE <<>>

getSectionCoefficients(buf, sec, lvl) == SectionCoefLoop(buf, sec, lvl, 1, sec.size \div 2)

\* GetCoefficients: band i appended section by section
RECURSIVE CoefLoop(_, _, _, _, _)
CoefLoop(buf, secs, lvl, i, out) ==
    IF i > Len(secs) THEN out
    ELSE LET scfs == getSectionCoefficients(buf, secs[i], lvl)
         IN CoefLoop(buf, secs, lvl, i + 1, [b \in 1..lvl |-> out[b] \o scfs[b]])

GetCoefficients(buf, secs, lvl) ==
    CoefLoop(buf, secs, lvl, 1, [b \in 1..lvl |-> <<>>])

\* Whether GetDownSampledCoefficients appends band i (0-based)
KeepsBand(i, lvl) == i < lvl - 1

RECURSIVE DownCoefLoop(_, _, _, _, _)
DownCoefLoop(buf, secs, lvl, i, out) ==
    IF i > Len(secs) THEN out
    ELSE LET scfs == getSectionCoefficients(buf, secs[i], lvl)
         IN DownCoefLoop(buf, secs, lvl, i + 1,
                [b \in 1..lvl |->
                    IF KeepsBand(b - 1, lvl)
                    THEN out[b] \o DownSample(scfs[b], Pow2(lvl - b))
                    ELSE out[b]])

GetDownSampledCoefficients(buf, secs, lvl) ==
    DownCoefLoop(buf, secs, lvl, 1, [b \in 1..lvl |-> <<>>])

\* Whether a DownSample call of GetDownSampledCoefficients panics
DownCoefPanics(buf, secs, lvl) ==
    \E i \in 1..Len(secs) : \E b \in 1..lvl :
        /\ KeepsBand(b - 1, lvl)
        /\ DownSamplePanics(getSectionCoefficients(buf, secs[i], lvl)[b], Pow2(lvl - b))

PeaksIdle ==
    /\ seq = <<>> /\ peaks = <<>> /\ idxtopeak = <<>> /\ indices = <<>>
    /\ k = 0 /\ frac = 0 /\ idxs = <<>> /\ biggest = none

Tails == {0, 8}

InputLens == {MinSection * u + r : u \in 0..MaxUnits, r \in Tails}

Inputs == {[i \in 1..n |-> Num(m * (i - 1) + 1)] : n \in InputLens, m \in 1..MaxSlope}

\* Daubechies4 returns the DWT with Daubechies 4 coefficients to level
Daubechies4 ==
    /\ pc = "new"
    /\ IF Pow2Panics(level)
       THEN /\ pc' = "panic"
            /\ UNCHANGED <<st, sections>>
       ELSE IF CallsLog2OfZero(Len(s), level, 0)
       THEN /\ \E r \in Log2OfZero : pc' = SectionsOutcome(r)
            /\ UNCHANGED <<st, sections>>
       ELSE /\ sections' = getTransformSections(Len(s), level)
            /\ st' = SectionLoop(s, sections', level, 1)
            /\ pc' = "built"
    /\ UNCHANGED <<s, level, got, cfs, dscfs, decomp, N>>
    /\ UNCHANGED peakVars
    /\ UNCHANGED vecVars

CallGetCoefficients ==
    /\ pc = "built"
    /\ cfs' = GetCoefficients(st, sections, level)
    /\ got' = got \cup {"cfs"}
    /\ UNCHANGED <<pc, s, level, st, sections, dscfs, decomp, N>>
    /\ UNCHANGED peakVars
    /\ UNCHANGED vecVars

CallGetDownSampledCoefficients ==
    /\ pc = "built"
    /\ IF DownCoefPanics(st, sections, level)
       THEN /\ pc' = "panic"
            /\ UNCHANGED <<dscfs, got>>
       ELSE /\ dscfs' = GetDownSampledCoefficients(st, sections, level)
            /\ got' = got \cup {"dscfs"}
            /\ pc' = pc
    /\ UNCHANGED <<s, level, st, sections, cfs, decomp, N>>
    /\ UNCHANGED peakVars
    /\ UNCHANGED vecVars

\* GetDecomposition returns the vector containing the DWT decomposition
CallGetDecomposition ==
    /\ pc = "built"
    /\ decomp' = st
    /\ got' = got \cup {"decomp"}
    /\ UNCHANGED <<pc, s, level, st, sections, cfs, dscfs, N>>
    /\ UNCHANGED peakVars
    /\ UNCHANGED vecVars

InitDWT ==
    /\ pc = "new"
    /\ s \in Inputs
    /\ level \in -1..MaxLevel
    /\ st = <<>> /\ sections = <<>>
    /\ got = {} /\ cfs = <<>> /\ dscfs = <<>> /\ decomp = <<>>
    /\ N = 0
    /\ PeaksIdle
    /\ VecIdle

NextDWT ==
    \/ Daubechies4
    \/ CallGetCoefficients
    \/ CallGetDownSampledCoefficients
    \/ CallGetDecomposition

SpecDWT == InitDWT /\ [][NextDWT]_vars

\* The levels at which 64 * Pow2(level) is the greatest power of two of int,
\* wraps to the least int, and wraps to 0
WideLevels == {IntBits - 8, IntBits - 7, IntBits - 6, IntBits}

\* Daubechies4 at the levels of InitDWT and at the levels near the width of int
InitWide ==
    /\ pc = "new"
    /\ s \in Inputs
    /\ level \in (-1..MaxLevel) \cup WideLevels
    /\ st = <<>> /\ sections = <<>>
    /\ got = {} /\ cfs = <<>> /\ dscfs = <<>> /\ decomp = <<>>
    /\ N = 0
    /\ PeaksIdle
    /\ VecIdle

SpecWide == InitWide /\ [][NextDWT]_vars

TestN == 1315840

\* getTransformSections called on its own
CallGetTransformSections ==
    /\ pc = "sections"
    /\ IF Pow2Panics(level)
       THEN /\ pc' = "panic"
            /\ UNCHANGED sections
       ELSE IF CallsLog2OfZero(N, level, 0)
       THEN /\ \E r \in Log2OfZero : pc' = SectionsOutcome(r)
            /\ UNCHANGED sections
       ELSE /\ sections' = getTransformSections(N, level)
            /\ pc' = "sectioned"
    /\ UNCHANGED <<s, level, st, got, cfs, dscfs, decomp, N>>
    /\ UNCHANGED peakVars
    /\ UNCHANGED vecVars

InitSections ==
    /\ pc = "sections"
    /\ N \in (0..MaxN) \cup {TestN}
    /\ level \in -1..MaxSecLevel
    /\ s = <<>> /\ st = <<>> /\ sections = <<>>
    /\ got = {} /\ cfs = <<>> /\ dscfs = <<>> /\ decomp = <<>>
    /\ PeaksIdle
    /\ VecIdle

NextSections == CallGetTransformSections

SpecSections == InitSections /\ [][NextSections]_vars

----------------------------------------------------------------------------
(* split on a window of its own *)

Windows == UNION {[1..n -> 0..MaxVal] : n \in 0..MaxWin}

\* split(s), in place on the window vec
CallSplit ==
    /\ pc = "window"
    /\ vec' = split(vec)
    /\ pc' = "split"
    /\ UNCHANGED <<maxValue, maxIndex>>
    /\ UNCHANGED peakVars
    /\ UNCHANGED dwtVars

InitSplit ==
    /\ pc = "window"
    /\ vec \in Windows
    /\ maxValue = 0 /\ maxIndex = 0
    /\ PeaksIdle
    /\ DwtIdle

NextSplit == CallSplit

SpecSplit == InitSplit /\ [][NextSplit]_vars

\* C17: for an even-length window of n samples split leaves s[k] = the former
\* s[2k] and s[n/2 + k] = the former s[2k + 1] for every k in 0..n/2-1.
C17_SplitEvensThenOdds ==
    [][(pc = "window" /\ pc' = "split" /\ Len(vec) % 2 = 0) =>
            /\ Len(vec') = Len(vec)
            /\ \A n \in 0..(Len(vec) \div 2 - 1) :
                /\ At(vec', n) = At(vec, 2 * n)
                /\ At(vec', Len(vec) \div 2 + n) = At(vec, 2 * n + 1)]_vars

C17_Witness ==
    /\ pc = "split" /\ Len(vec) = MaxWin
    /\ vec = <<0, 1, 2, 1, 2, 0>>

----------------------------------------------------------------------------
(* FindMax and FindMaxI *)

\* The loop of FindMax and FindMaxI from i, with the running value and index
RECURSIVE FindMaxLoop(_, _, _, _)
FindMaxLoop(x, i, value, index) ==
    IF i < Len(x) - 1
    THEN IF At(x, i) > value
         THEN FindMaxLoop(x, i + 1, At(x, i), i)
         ELSE FindMaxLoop(x, i + 1, value, index)
    ELSE <<value, index>>

\* FindMax returns <<value, index>>; x[0] panics on an empty x
FindMax(x) == FindMaxLoop(x, 1, At(x, 0), 0)

FindMaxI(x) == FindMaxLoop(x, 1, At(x, 0), 0)

CallFindMax ==
    /\ pc = "vec"
    /\ IF Len(vec) = 0
       THEN /\ pc' = "panic"
            /\ UNCHANGED <<maxValue, maxIndex>>
       ELSE /\ maxValue' = FindMax(vec)[1]
            /\ maxIndex' = FindMax(vec)[2]
            /\ pc' = "findmax"
    /\ UNCHANGED vec
    /\ UNCHANGED peakVars
    /\ UNCHANGED dwtVars

CallFindMaxI ==
    /\ pc = "vec"
    /\ IF Len(vec) = 0
       THEN /\ pc' = "panic"
            /\ UNCHANGED <<maxValue, maxIndex>>
       ELSE /\ maxValue' = FindMaxI(vec)[1]
            /\ maxIndex' = FindMaxI(vec)[2]
            /\ pc' = "findmaxi"
    /\ UNCHANGED vec
    /\ UNCHANGED peakVars
    /\ UNCHANGED dwtVars

InitVec ==
    /\ pc = "vec"
    /\ vec \in Seqs
    /\ maxValue = 0 /\ maxIndex = 0
    /\ PeaksIdle
    /\ DwtIdle

NextVec ==
    \/ CallFindMax
    \/ CallFindMaxI

SpecVec == InitVec /\ [][NextVec]_vars

\* C13: for a non-empty x, FindMax(x) and FindMaxI(x) return the maximum over
\* all the elements of x and the index of the first element equal to it, also
\* when the maximum occurs only at the last element.
C13_FindMaxOverAllElements ==
    (pc \in {"findmax", "findmaxi"} /\ Len(vec) > 0) =>
        /\ \A i \in 0..(Len(vec) - 1) : At(vec, i) <= maxValue
        /\ maxIndex \in 0..(Len(vec) - 1)
        /\ At(vec, maxIndex) = maxValue
        /\ \A i \in 0..(maxIndex - 1) : At(vec, i) < maxValue

----------------------------------------------------------------------------
(* Properties of the wavelet transform *)

RECURSIVE SumSizes(_, _)
SumSizes(secs, i) == IF i > Len(secs) THEN 0 ELSE secs[i].size + SumSizes(secs, i + 1)

RECURSIVE IsPowerOfTwo(_)
IsPowerOfTwo(n) == n = 1 \/ (n > 1 /\ n % 2 = 0 /\ IsPowerOfTwo(n \div 2))

\* Every n-th sample of x, from the first
Decimated(x, n) == [j \in 1..(Len(x) \div n) |-> x[(j - 1) * n + 1]]

\* C1: for level >= 1 all the bands GetDownSampledCoefficients returns have the
\* length of the deepest band GetCoefficients returns on the same Transform,
\* and each band i < level is band i of GetCoefficients decimated by
\* 2^(level - i).
C1_DownSampledBandsShareDeepestLength ==
    (pc = "built" /\ {"cfs", "dscfs"} \subseteq got /\ level >= 1) =>
        /\ Len(dscfs) = level
        /\ \A i \in 1..level : Len(dscfs[i]) = Len(cfs[level])
        /\ \A i \in 1..(level - 1) : dscfs[i] = Decimated(cfs[i], TwoTo(level - i))

\* C3 as stated: Daubechies4 on 8 samples with level 1, then GetCoefficients,
\* returns exactly 1 band, of length 4.
C3_EightSamplesBandOfFour ==
    (pc = "built" /\ "cfs" \in got /\ Len(s) = 8 /\ level = 1) =>
        Len(cfs) = 1 /\ Len(cfs[1]) = 4

\* C3, amended: Daubechies4 on 8 samples with level 1, then GetCoefficients,
\* returns exactly 1 band, and the band is empty: 8 < 64 * 2^1 samples hold no
\* section, and the 8 samples stay untransformed in the working buffer.
C3_EightSamplesEmptyBand ==
    (pc = "built" /\ "cfs" \in got /\ Len(s) = 8 /\ level = 1) =>
        /\ Len(cfs) = 1 /\ Len(cfs[1]) = 0
        /\ sections = <<>> /\ st = s

C3_Witness == pc = "built" /\ "cfs" \in got /\ Len(s) = 8 /\ level = 1

\* C4: the sections of getTransformSections(N, level) have sizes that are
\* powers of two, start at 0, follow each other without gap or overlap, and
\* their sizes sum to at most N.
C4_SectionsContiguousPowersOfTwo ==
    pc = "sectioned" =>
        /\ \A i \in 1..Len(sections) : IsPowerOfTwo(sections[i].size)
        /\ Len(sections) > 0 => sections[1].start = 0
        /\ \A i \in 2..Len(sections) :
            sections[i].start = sections[i - 1].start + sections[i - 1].size
        /\ SumSizes(sections, 1) <= N

C4_Witness ==
    /\ pc = "sectioned" /\ Len(sections) >= 3
    /\ SumSizes(sections, 1) < N

\* C5: the section sizes of getTransformSections(N, level) sum to
\* N - (N mod (64 * 2^level)): to N when N is a multiple of 64 * 2^level, as
\* for N = 1,315,840 and level 4, and the tail left over is shorter than
\* 64 * 2^level.
C5_SectionsCoverAllButTheTail ==
    pc = "sectioned" =>
        LET unit == 64 * TwoTo(level)
            sum == SumSizes(sections, 1)
        IN /\ sum = N - (N % unit)
           /\ N % unit = 0 => sum = N
           /\ (N = TestN /\ level = 4) => sum = N
           /\ N - sum < unit

C5_Witness ==
    /\ pc = "sectioned" /\ N = TestN /\ level = 4
    /\ Len(sections) = 4 /\ SumSizes(sections, 1) = N

\* C11: Daubechies4 fails exactly when level < 0: for every level >= 0 and
\* every sequence, the empty one and those shorter than 64 * 2^level included,
\* the construction and the calls of the getters after it complete.
C11_FailsExactlyOnNegativeLevel ==
    /\ pc \in {"panic", "stuck"} => level < 0
    /\ (level < 0 /\ pc # "new") => pc = "panic"
    /\ (level >= 0 /\ pc = "built") =>
        /\ "cfs" \in got => Len(cfs) = level
        /\ "dscfs" \in got => Len(dscfs) = level
        /\ "decomp" \in got => Len(decomp) = Len(s)

\* The buffer before and after the transform of section j of a built Transform
BeforeSection(j) == SectionLoop(s, SubSeq(sections, 1, j - 1), level, 1)

AfterSection(j) == LevelLoop(BeforeSection(j), sections[j].start, sections[j].size, level)

\* x and y are equal at every index outside [from, to)
SameOutside(x, y, from, to) ==
    /\ Len(x) = Len(y)
    /\ \A i \in 0..(Len(x) - 1) : (i < from \/ i >= to) => At(x, i) = At(y, i)

\* In a built Transform: the tail after the last section is the input's, and
\* the transform of each section leaves every index outside it as it was
FrameOfSections ==
    pc = "built" =>
        /\ Len(st) = Len(s)
        /\ \A i \in SumSizes(sections, 1)..(Len(s) - 1) : At(st, i) = At(s, i)
        /\ "decomp" \in got => decomp = st
        /\ got = {} =>
            \A j \in 1..Len(sections) :
                SameOutside(BeforeSection(j), AfterSection(j),
                            sections[j].start, sections[j].start + sections[j].size)

\* C14: Daubechies4 never modifies its input s; in the buffer GetDecomposition
\* returns every index at or beyond the end of the last section holds the
\* input value s[i]; the transform of one section writes only the indices in
\* [start, start+size) of that section.
C14_InputAndTailUntouched == []FrameOfSections /\ [][s' = s]_vars

C14_Witness ==
    /\ pc = "built" /\ level = 2 /\ "decomp" \in got
    /\ Len(sections) >= 2
    /\ SumSizes(sections, 1) < Len(s)
    /\ SubSeq(decomp, 1, SumSizes(sections, 1)) # SubSeq(s, 1, SumSizes(sections, 1))

----------------------------------------------------------------------------
(* Properties of the peak detector *)

Elems(x) == {x[i] : i \in 1..Len(x)}

StrictlyIncreasing(x) == \A i \in 1..Len(x) : \A j \in 1..Len(x) : i < j => x[i] < x[j]

Returned == pc \in {"done", "indices", "max"}

\* C2: GetPeaks(seq).GetIndices(0.0) returns the born index of every peak of
\* the result set: as many entries as there are peaks, peaks of persistence 0
\* and the case of no finite persistence included.
C2_GetIndicesZeroReturnsAllPeaks ==
    (pc = "indices" /\ frac = 0) =>
        /\ Len(idxs) = Len(peaks)
        /\ idxs = [i \in 1..Len(peaks) |-> peaks[i].born]

\* C6: for a non-empty sequence the result of GetPeaks holds exactly one peak
\* that never died, its born index holds the maximum of the sequence, and
\* every other peak died at a valid index of the sequence.
C6_OneSurvivorAtMaximum ==
    (Returned /\ Len(seq) > 0) =>
        /\ Cardinality({i \in 1..Len(peaks) : peaks[i].died = none}) = 1
        /\ \A i \in 1..Len(peaks) :
            IF peaks[i].died = none
            THEN \A j \in 0..(Len(seq) - 1) : At(seq, peaks[i].born) >= At(seq, j)
            ELSE peaks[i].died \in 0..(Len(seq) - 1)

C6_Witness ==
    /\ pc = "done" /\ Len(peaks) >= 3
    /\ \E i \in 1..Len(peaks) : peaks[i].died # none

\* C7: for a non-empty sequence and a fraction in [0, 1], GetIndices returns
\* the born index of the peak that never died, also when it is the only peak
\* and when the maximum finite persistence is 0.
C7_SurvivorAlwaysReturned ==
    (pc = "indices" /\ Len(seq) > 0 /\ frac \in 0..FracDen) =>
        \E i \in 1..Len(peaks) :
            peaks[i].died = none /\ peaks[i].born \in Elems(idxs)

\* C8: on [1,3,2,5,2,4,1] GetPeaks reports a peak born at 1 and a peak born
\* at 3; the one born at 3 never dies, the one born at 1 died at 2 and has
\* persistence 3 - 2 = 1.
C8_Scenario ==
    (Returned /\ seq = Scenario) =>
        /\ \E i \in 1..Len(peaks) :
            /\ peaks[i].born = 1 /\ peaks[i].died = 2
            /\ getPersistence(peaks[i], seq) = Fin(1)
        /\ \E i \in 1..Len(peaks) :
            /\ peaks[i].born = 3 /\ peaks[i].died = none
            /\ getPersistence(peaks[i], seq) = PosInf

C8_Witness == pc = "done" /\ seq = Scenario /\ Len(peaks) = 3

\* C9: the peaks GetPeaks returns are in strictly increasing order of born,
\* and so is the list GetIndices returns, for every fraction.
C9_AscendingBorn ==
    /\ Returned => StrictlyIncreasing([i \in 1..Len(peaks) |-> peaks[i].born])
    /\ pc \in {"indices", "max"} => StrictlyIncreasing(idxs)

C9_Witness ==
    /\ pc = "indices" /\ Len(idxs) >= 2
    /\ \E i \in 1..Len(peaks) : peaks[i].died = none /\ i > 1

\* C10: Max(frac) returns an element of GetIndices(frac) whose value is >= the
\* value at every element of GetIndices(frac), and -1 exactly when
\* GetIndices(frac) is empty.
C10_MaxIsHighestQualifying ==
    pc = "max" =>
        /\ biggest = -1 <=> idxs = <<>>
        /\ biggest # -1 =>
            /\ biggest \in Elems(idxs)
            /\ \A j \in Elems(idxs) : At(seq, biggest) >= At(seq, j)

C10_Witness ==
    /\ pc = "max" /\ Len(idxs) >= 2 /\ biggest # idxs[1]
    /\ \E j \in Elems(idxs) : At(seq, j) < At(seq, biggest)

\* sq rises strictly to a, falls strictly to v, rises strictly to b and falls
\* strictly to its end, with the same value at a and b: two humps of equal
\* height around a strictly lower valley and no other local maximum
TwoHumpsAt(sq, a, v, b) ==
    /\ 0 <= a /\ a < v /\ v < b /\ b < Len(sq)
    /\ At(sq, a) = At(sq, b)
    /\ \A i \in 0..(Len(sq) - 2) :
        IF i < a \/ (v <= i /\ i < b)
        THEN At(sq, i) < At(sq, i + 1)
        ELSE At(sq, i) > At(sq, i + 1)

Idx(sq) == 0..(Len(sq) - 1)

TwoHumps(sq) == \E a \in Idx(sq) : \E v \in Idx(sq) : \E b \in Idx(sq) : TwoHumpsAt(sq, a, v, b)

\* C12 as stated: on two humps of equal height around a strictly lower valley
\* GetPeaks yields exactly two peaks, each of finite, non-zero persistence
\* equal to the hump height minus the valley value.
C12_BothHumpsFinitePersistence ==
    (Returned /\ TwoHumps(seq)) =>
        \A a \in Idx(seq) : \A v \in Idx(seq) : \A b \in Idx(seq) :
            TwoHumpsAt(seq, a, v, b) =>
                /\ Len(peaks) = 2
                /\ At(seq, a) - At(seq, v) # 0
                /\ \A i \in 1..Len(peaks) :
                    getPersistence(peaks[i], seq) = Fin(At(seq, a) - At(seq, v))

\* C12, amended: GetPeaks yields exactly two peaks; the peak of the left hump
\* died at the bottom of the valley and has the finite, non-zero persistence
\* hump height minus valley value; the peak of the right hump, which survives
\* the tie, never died and has infinite persistence.
C12_LeftHumpFiniteRightHumpInfinite ==
    (Returned /\ TwoHumps(seq)) =>
        \A a \in Idx(seq) : \A v \in Idx(seq) : \A b \in Idx(seq) :
            TwoHumpsAt(seq, a, v, b) =>
                /\ Len(peaks) = 2
                /\ peaks[1].born = a /\ peaks[1].died = v
                /\ getPersistence(peaks[1], seq) = Fin(At(seq, a) - At(seq, v))
                /\ At(seq, a) - At(seq, v) > 0
                /\ peaks[2].born = b /\ peaks[2].died = none
                /\ getPersistence(peaks[2], seq) = PosInf

C12_Witness ==
    /\ pc = "done" /\ TwoHumps(seq) /\ Len(seq) = 5
    /\ Len(peaks) = 2 /\ peaks[1].died = 2


\* The step of the sweep that processes index At(indices, k)
SweepStep == pc = "sweep" /\ k < Len(indices) /\ k' = k + 1

PeakIdx == 0..(Len(peaks) - 1)

\* What C15 says of the merge of the live peaks il and ir at idx
MergedAs(idx, il, ir) ==
    LET lp == At(peaks, il)
        rp == At(peaks, ir)
        leftWins == At(seq, lp.born) > At(seq, rp.born)
        sv == IF leftWins THEN il ELSE ir
        dd == IF leftWins THEN ir ELSE il
    IN /\ il # ir
       /\ lp.died = none /\ rp.died = none
       /\ lp.right = idx - 1 /\ rp.left = idx + 1
       /\ lp.born < rp.born
       /\ Len(peaks') = Len(peaks)
       /\ At(peaks', dd) = [At(peaks, dd) EXCEPT !.died = idx]
       /\ At(peaks', sv) = [At(peaks, sv) EXCEPT !.left = lp.left, !.right = rp.right]
       /\ \A i \in PeakIdx \ {il, ir} : At(peaks', i) = At(peaks, i)

\* C15: in every merge step of the sweep (both neighbours of idx already
\* assigned) exactly one of the two neighbouring live peaks dies, with
\* died = idx; the left one survives iff its birth value is strictly greater,
\* so on equal birth values the right one survives; the survivor's span becomes
\* the union of both spans and idx.
C15_MergeKillsTheLowerOrLeftOnTie ==
    [][(SweepStep /\ lftdone(At(indices, k)) /\ rgtdone(At(indices, k))) =>
            MergedAs(At(indices, k),
                     At(idxtopeak, At(indices, k) - 1),
                     At(idxtopeak, At(indices, k) + 1))]_vars

C15_Witness ==
    /\ pc = "sweep"
    /\ \E i, j \in PeakIdx :
        /\ At(peaks, i).born < At(peaks, j).born
        /\ At(seq, At(peaks, i).born) = At(seq, At(peaks, j).born)
        /\ At(peaks, i).died = At(peaks, i).right + 1
        /\ At(peaks, j).died = none
        /\ At(peaks, j).left = At(peaks, i).left
        /\ At(peaks, j).right > At(peaks, i).died

\* C16: once a peak has died no later step of the sweep modifies its born,
\* died, left or right, and no index processed later is assigned to it; peaks
\* are never removed from the list.
C16_DeadPeaksAreFrozen ==
    [][SweepStep =>
            /\ Len(peaks') >= Len(peaks)
            /\ \A i \in PeakIdx : At(peaks', i).born = At(peaks, i).born
            /\ \A i \in PeakIdx :
                At(peaks, i).died # none => At(peaks', i) = At(peaks, i)
            /\ \A j \in 0..(Len(seq) - 1) :
                (At(idxtopeak', j) # At(idxtopeak, j) /\ At(idxtopeak', j) \in PeakIdx)
                    => At(peaks, At(idxtopeak', j)).died = none]_vars

C16_Witness ==
    /\ pc = "sweep" /\ k = Len(indices) /\ Len(peaks) >= 3
    /\ \E i \in PeakIdx :
        /\ At(peaks, i).died # none
        /\ \E n \in 2..(k - 1) : At(indices, n - 2) = At(peaks, i).died

Live == {i \in PeakIdx : At(peaks, i).died = none}

Span(i) == At(peaks, i).left..At(peaks, i).right

Processed == {At(indices, n) : n \in 0..(k - 1)}

\* C18: after every step of the sweep the spans [left, right] of the live
\* peaks are pairwise disjoint, their union is the set of the indices processed
\* so far, each span contains its peak's born, and idxtopeak names the live
\* peak at both ends of its span; at the end of the sweep over a non-empty
\* sequence the single live peak spans [0, len-1].
C18_LiveSpansPartitionProcessed ==
    pc = "sweep" =>
        /\ \A i, j \in Live : i # j => Span(i) \cap Span(j) = {}
        /\ UNION {Span(i) : i \in Live} = Processed
        /\ \A i \in Live :
            /\ At(peaks, i).born \in Span(i)
            /\ At(idxtopeak, At(peaks, i).left) = i
            /\ At(idxtopeak, At(peaks, i).right) = i
        /\ (k = Len(indices) /\ Len(seq) > 0) =>
            \E i \in PeakIdx : Live = {i} /\ Span(i) = 0..(Len(seq) - 1)

C18_Witness ==
    /\ pc = "sweep" /\ k = Len(indices) /\ Len(seq) = 5
    /\ Len(peaks) = 3 /\ Cardinality(Live) = 1

====
